---- MODULE Spec2Model ----
(***************************************************************************)
(* Model of parse_pdf_and_classify.py: the heading filter is_heading, the  *)
(* line normalisation and scan of extract_headings_from_pdf, the title     *)
(* extraction of extract_title_from_pdf, process_pdf and the batch loop of *)
(* process_all_pdfs.                                                       *)
(*                                                                         *)
(* A Python str is a sequence of one-character strings.  A value that may  *)
(* be None is <<>> (None) or <<v>> (the value v).  Font sizes and          *)
(* coordinates are whole points, a normalised vertical position is in      *)
(* hundredths of the page height, and the score of is_heading is in tenths.*)
(***************************************************************************)
EXTENDS Integers, Sequences, FiniteSets, TLC

\* ------------------------------------------------------------ characters

\* U+2022 and U+2192, the two non-ASCII glyphs of the bullet pattern.
BULLET == "U+2022"
ARROW == "U+2192"
TAB == "\t"
NL == "\n"

UpperSeq == <<"A","B","C","D","E","F","G","H","I","J","K","L","M",
              "N","O","P","Q","R","S","T","U","V","W","X","Y","Z">>
LowerSeq == <<"a","b","c","d","e","f","g","h","i","j","k","l","m",
              "n","o","p","q","r","s","t","u","v","w","x","y","z">>
Upper == {UpperSeq[i] : i \in DOMAIN UpperSeq}
Lower == {LowerSeq[i] : i \in DOMAIN LowerSeq}
Digit == {"0","1","2","3","4","5","6","7","8","9"}
\* The characters str.strip, str.split and the regex class \s treat as space.
Space == {" ", TAB, NL, "\r"}

LetterIndex(c, seq) == CHOOSE i \in DOMAIN seq : seq[i] = c
LowerChar(c) == IF c \in Upper THEN LowerSeq[LetterIndex(c, UpperSeq)] ELSE c
UpperChar(c) == IF c \in Lower THEN UpperSeq[LetterIndex(c, LowerSeq)] ELSE c

\* ------------------------------------------------------------ str methods

RECURSIVE lstrip(_)
lstrip(s) == IF s # <<>> /\ Head(s) \in Space THEN lstrip(Tail(s)) ELSE s

RECURSIVE rstrip(_)
rstrip(s) ==
    IF s # <<>> /\ s[Len(s)] \in Space
    THEN rstrip(SubSeq(s, 1, Len(s) - 1))
    ELSE s

strip(s) == rstrip(lstrip(s))

RECURSIVE SplitFrom(_, _, _)
SplitFrom(s, cur, acc) ==
    IF s = <<>>
    THEN IF cur = <<>> THEN acc ELSE Append(acc, cur)
    ELSE IF Head(s) \in Space
         THEN SplitFrom(Tail(s), <<>>, IF cur = <<>> THEN acc ELSE Append(acc, cur))
         ELSE SplitFrom(Tail(s), Append(cur, Head(s)), acc)

\* str.split(): the maximal runs of non-space characters, in order.
split(s) == SplitFrom(s, <<>>, <<>>)

lower(s) == [i \in DOMAIN s |-> LowerChar(s[i])]

\* str.islower / str.isupper: at least one cased character, none of the other case.
islower(s) == (\E i \in DOMAIN s : s[i] \in Lower) /\ (\A i \in DOMAIN s : s[i] \notin Upper)
isupper(s) == (\E i \in DOMAIN s : s[i] \in Upper) /\ (\A i \in DOMAIN s : s[i] \notin Lower)

RECURSIVE IsTitleFrom(_, _, _, _)
IsTitleFrom(s, i, prevCased, cased) ==
    IF i > Len(s) THEN cased
    ELSE IF s[i] \in Upper
         THEN IF prevCased THEN FALSE ELSE IsTitleFrom(s, i + 1, TRUE, TRUE)
         ELSE IF s[i] \in Lower
              THEN IF ~prevCased THEN FALSE ELSE IsTitleFrom(s, i + 1, TRUE, TRUE)
              ELSE IsTitleFrom(s, i + 1, FALSE, cased)

\* str.istitle(): uppercase only after an uncased character, lowercase only
\* after a cased one, and at least one cased character.
istitle(s) == IsTitleFrom(s, 1, FALSE, FALSE)

RECURSIVE TitleFrom(_, _, _)
TitleFrom(s, i, prevCased) ==
    IF i > Len(s) THEN <<>>
    ELSE LET c == s[i]
             d == IF c \in Lower /\ ~prevCased THEN UpperChar(c)
                  ELSE IF c \in Upper /\ prevCased THEN LowerChar(c)
                  ELSE c
         IN <<d>> \o TitleFrom(s, i + 1, c \in Upper \cup Lower)

\* str.title()
str_title(s) == TitleFrom(s, 1, FALSE)

\* str.replace('_', ' ')
replace_underscores(s) == [i \in DOMAIN s |-> IF s[i] = "_" THEN " " ELSE s[i]]

endswith(s, c) == s # <<>> /\ s[Len(s)] = c

\* ------------------------------------------------------------ regexes

\* The first index at or after i that holds no digit.
RECURSIVE DigitRunEnd(_, _)
DigitRunEnd(s, i) == IF i <= Len(s) /\ s[i] \in Digit THEN DigitRunEnd(s, i + 1) ELSE i

\* re.search(r'\[\d+\]', line)
SearchBracketedInt(s) ==
    \E i \in DOMAIN s :
        /\ s[i] = "["
        /\ LET j == DigitRunEnd(s, i + 1)
           IN j > i + 1 /\ j <= Len(s) /\ s[j] = "]"

\* re.match(r'^[•\-→]', line)
MatchBullet(s) == s # <<>> /\ s[1] \in {BULLET, "-", ARROW}

\* re.search(r'[.;,!?]$', line): '$' is the end of the string, or the place
\* before a newline that ends it.
SearchFinalPunct(s) ==
    LET P == {".", ";", ",", "!", "?"}
    IN \/ s # <<>> /\ s[Len(s)] \in P
       \/ Len(s) >= 2 /\ s[Len(s)] = NL /\ s[Len(s) - 1] \in P

RECURSIVE NumericPrefixFrom(_, _)
NumericPrefixFrom(s, i) ==
    LET j == DigitRunEnd(s, i)
    IN IF j = i \/ j > Len(s) THEN FALSE
       ELSE IF s[j] \in Space THEN TRUE
       ELSE IF s[j] = "." THEN NumericPrefixFrom(s, j + 1)
       ELSE FALSE

RECURSIVE NumericPrefixPeriodFrom(_, _)
NumericPrefixPeriodFrom(s, i) ==
    LET j == DigitRunEnd(s, i)
    IN IF j = i \/ j >= Len(s) \/ s[j] # "." THEN FALSE
       ELSE IF s[j + 1] \in Space THEN TRUE
       ELSE NumericPrefixPeriodFrom(s, j + 1)

\* Faulty variant of MatchNumericPrefix, the pattern ^(\d+\.)+\s which wants
\* a period after each digit group: C1_PrefixHeadingUnlessRejected detects it.
MatchNumericPrefix_TrailingPeriod(s) == NumericPrefixPeriodFrom(s, 1)

\* re.match(r'^\d+(\.\d+)*\s', line)
MatchNumericPrefix(s) == NumericPrefixFrom(s, 1)

\* The index of the first character outside [0-9\s.\-], or Len(s) + 1.
RECURSIVE PrefixRunEnd(_, _)
PrefixRunEnd(s, i) ==
    IF i <= Len(s) /\ s[i] \in Digit \cup Space \cup {".", "-"}
    THEN PrefixRunEnd(s, i + 1)
    ELSE i

\* re.sub(r'^[0-9\s\.\-]+', '', line)
SubLeadingPrefix(s) == SubSeq(s, PrefixRunEnd(s, 1), Len(s))

\* ------------------------------------------------------------ is_heading

Verbs == { <<"i","s">>, <<"a","r","e">>, <<"w","a","s">>, <<"h","a","s">>,
           <<"h","a","v","e">>, <<"w","e","r","e">>, <<"w","i","l","l">> }

Tokens(s) == {split(s)[i] : i \in DOMAIN split(s)}

Present(o) == o # <<>>
Val(o) == o[1]

MaxHeadingWords == 15
MaxPeriodWords == 8
MinHeadingFont == 12
MaxShortWords == 10
MinUpperLen == 2

\* Faulty variant of RejectRule, without the citation test of line 37:
\* C2_RejectionDominates detects it.
RejectRule_NoCitation(line) ==
    IF Len(split(line)) > MaxHeadingWords THEN 2
    ELSE IF (\E i \in DOMAIN line : line[i] = ".") /\ Len(split(line)) > MaxPeriodWords THEN 3
    ELSE IF islower(line) THEN 4
    ELSE IF Tokens(lower(line)) \cap Verbs # {} THEN 5
    ELSE IF MatchBullet(line) THEN 7
    ELSE IF SearchFinalPunct(line) /\ ~endswith(line, ":") THEN 8
    ELSE 0

\* Lines 29-42 on the stripped, non-empty line: the number of the first
\* rejection test that fires (2..8, the emptiness test of line 25 being 1),
\* or 0 when none does.
RejectRule(line) ==
    IF Len(split(line)) > MaxHeadingWords THEN 2
    ELSE IF (\E i \in DOMAIN line : line[i] = ".") /\ Len(split(line)) > MaxPeriodWords THEN 3
    ELSE IF islower(line) THEN 4
    ELSE IF Tokens(lower(line)) \cap Verbs # {} THEN 5
    ELSE IF SearchBracketedInt(line) THEN 6
    ELSE IF MatchBullet(line) THEN 7
    ELSE IF SearchFinalPunct(line) /\ ~endswith(line, ":") THEN 8
    ELSE 0

\* Faulty variant of AcceptRule, whose uppercase test wants more than 3
\* characters: C10_UppercaseNeverScored detects it.
AcceptRule_Upper3(line) ==
    IF MatchNumericPrefix(line) THEN 1
    ELSE IF endswith(line, ":") THEN 2
    ELSE IF istitle(line) THEN 3
    ELSE IF isupper(line) /\ Len(line) > MinUpperLen + 1 THEN 4
    ELSE 0

\* Lines 45-52: the number of the first acceptance test that fires, or 0.
AcceptRule(line) ==
    IF MatchNumericPrefix(line) THEN 1
    ELSE IF endswith(line, ":") THEN 2
    ELSE IF istitle(line) THEN 3
    ELSE IF isupper(line) /\ Len(line) > MinUpperLen THEN 4
    ELSE 0

\* Faulty variant of Centered, with 0.45 <= center <= 0.55: C9_ScoreDecides
\* detects it.
Centered_Inclusive(x_pos, width, page_width) ==
    LET twice == 2 * Val(x_pos) + Val(width)
    IN 90 * Val(page_width) <= 100 * twice /\ 100 * twice <= 110 * Val(page_width)

\* 0.45 < (x_pos + width / 2) / page_width < 0.55, for a positive page width.
Centered(x_pos, width, page_width) ==
    LET twice == 2 * Val(x_pos) + Val(width)
    IN 90 * Val(page_width) < 100 * twice /\ 100 * twice < 110 * Val(page_width)

\* The words that start with an uppercase letter.
CapCount(words) == Cardinality({i \in DOMAIN words : words[i][1] \in Upper})

\* Lines 55-76: the score, in tenths.
Score(line, font_size, is_bold, y_pos, x_pos, width, page_width) ==
    LET words == split(line)
    IN  (IF Present(font_size) /\ Val(font_size) # 0 /\ Val(font_size) >= MinHeadingFont
         THEN 4 ELSE 0)
      + (IF is_bold THEN 3 ELSE 0)
      + (IF Len(words) < MaxShortWords THEN 2 ELSE 0)
      + (IF Present(y_pos) /\ Val(y_pos) < 30 THEN 1 ELSE 0)
      + (IF isupper(line) /\ Len(line) > MinUpperLen THEN 2 ELSE 0)
      + (IF Present(x_pos) /\ Present(width) /\ Present(page_width)
            /\ Centered(x_pos, width, page_width)
         THEN 1 ELSE 0)
      + (IF words # <<>> /\ 10 * CapCount(words) > 7 * Len(words) THEN 1 ELSE 0)

ScoreThreshold == 5

\* is_heading, lines 24-78.
is_heading(text, font_size, is_bold, y_pos, x_pos, width, page_width) ==
    LET line == strip(text)
    IN IF line = <<>> THEN FALSE
       ELSE IF RejectRule(line) # 0 THEN FALSE
       ELSE IF AcceptRule(line) # 0 THEN TRUE
       ELSE Score(line, font_size, is_bold, y_pos, x_pos, width, page_width)
                >= ScoreThreshold

\* ------------------------------------------------------------ inputs of is_heading

MaxWords == 2

SeqsUpTo(S, n) == UNION {[1..k -> S] : k \in 0..n}

RECURSIVE Join(_, _)
\* sep.join(parts)
Join(parts, sep) ==
    IF parts = <<>> THEN <<>>
    ELSE IF Len(parts) = 1 THEN parts[1]
    ELSE parts[1] \o sep \o Join(Tail(parts), sep)

Repeat(w, n) == [i \in 1..n |-> w]

\* The words the checked lines are built from: a section number, a number
\* with a trailing period, capitalised, lowercase and uppercase words, a
\* linking verb, a citation, a word that ends in a colon and one that starts
\* with a hyphen.
WordSet ==
    { <<"1",".","2">>, <<"1",".">>,
      <<"I","n","t","r","o">>, <<"d","a","t","a">>, <<"i","s">>,
      <<"A","B">>, <<"A","B","C">>, <<"[","3","]">>,
      <<"N","o","t","e",":">>, <<"-","a">> }

WordLines == {Join(ws, <<" ">>) : ws \in SeqsUpTo(WordSet, MaxWords)}

\* k capitalised words followed by n - k words that are not.
MixLine(k, n) == Join(Repeat(<<"A","b">>, k) \o Repeat(<<"c","D">>, n - k), <<" ">>)

LongLines ==
    { MixLine(k, n) : k \in {0, 7, 8}, n \in {8, 9, 10} }
    \cup { MixLine(n, n) : n \in {9, 15, 16} }
    \cup { MixLine(0, n) : n \in {15, 16} }
    \cup { <<"1",".","2"," ">> \o MixLine(k, n) : k \in {0, 7}, n \in {7, 8, 15} }
    \cup { MixLine(3, 4), MixLine(2, 3) }

ScenarioLines ==
    { <<"1","."," ","I","n","t","r","o","d","u","c","t","i","o","n">>,
      <<"1",".","2",".","3"," ","I","n","t","r","o","d","u","c","t","i","o","n">>,
      <<"1"," ","i","n","t","r","o","d","u","c","t","i","o","n">>,
      <<"T","h","e"," ","s","y","s","t","e","m"," ","i","s"," ","d","e","s","i","g","n","e","d",
        " ","t","o"," ","i","m","p","r","o","v","e"," ","p","e","r","f","o","r","m","a","n","c","e",".">>,
      <<"R","E","S","U","L","T","S">>,
      <<"R","E","S","U","L","T","S","!">>,
      <<"S","c","o","p","e"," ","o","f"," ","w","o","r","k">>,
      <<"1",".","2"," ","S","c","o","p","e"," ","o","f"," ","w","o","r","k">>,
      <<"2",".","1"," ","D","a","t","a"," ","W","a","s"," ","H","e","r","e">>,
      <<"s","e","e"," ","D","o","e"," ","[","1","2","]">>,
      <<BULLET,"I","t","e","m">>, <<ARROW," ","N","e","x","t">>,
      <<" ",TAB>>, <<" ","A","B"," ">>, <<TAB,"u","s","e"," ","T","L","C"," ">> }

HLines == WordLines \cup LongLines \cup ScenarioLines

FontSizes == {<<>>, <<11>>, <<12>>, <<14>>}
YPositions == {<<>>, <<10>>, <<30>>}
\* x_pos, width and page_width: all absent; centred (0.5); centre at 0.45; no x_pos.
Geometries ==
    { [x |-> <<>>, w |-> <<>>, pw |-> <<>>],
      [x |-> <<270>>, w |-> <<60>>, pw |-> <<600>>],
      [x |-> <<270>>, w |-> <<0>>, pw |-> <<600>>],
      [x |-> <<>>, w |-> <<60>>, pw |-> <<600>>] }

HeadingCalls ==
    { [text |-> t, font_size |-> f, is_bold |-> b, y_pos |-> y,
       x_pos |-> g.x, width |-> g.w, page_width |-> g.pw] :
        t \in HLines, f \in FontSizes, b \in BOOLEAN, y \in YPositions, g \in Geometries }

\* ------------------------------------------------------------ documents

\* A PDF file as fitz presents it: name is the file name, opens tells whether
\* fitz.open(pdf_path) succeeds, pages is the page sequence.  A page has its
\* plain text (get_text()), its layout blocks (get_text('dict')['blocks']),
\* its rect, and readable tells whether get_text succeeds on it.
Pdf(name, opens, pages) == [name |-> name, opens |-> opens, pages |-> pages]

Page(text, blocks, readable) ==
    [text |-> text, blocks |-> blocks, readable |-> readable,
     width |-> 600, height |-> 800]

\* ------------------------------------------------------------ extract_title_from_pdf

TitleWindow == 5
MinTitleLen == 3
MaxTitleLen == 200

\* The index of the first newline of s, or 0.
FirstNL(s) ==
    LET N == {i \in DOMAIN s : s[i] = NL}
    IN IF N = {} THEN 0 ELSE CHOOSE i \in N : \A j \in N : i <= j

RECURSIVE split_lines(_)
\* text.split('\n'): the pieces between newlines, the empty ones included.
split_lines(text) ==
    LET i == FirstNL(text)
    IN IF i = 0 THEN <<text>>
       ELSE <<SubSeq(text, 1, i - 1)>> \o split_lines(SubSeq(text, i + 1, Len(text)))

\* lines[:n]
Take(seq, n) == SubSeq(seq, 1, IF Len(seq) < n THEN Len(seq) ELSE n)

\* Faulty variant of TitleOfLine, with len(line) >= 3:
\* C7_TitleIsFirstQualifyingLine detects it.
TitleOfLine_Min3(raw) ==
    LET line == strip(raw)
    IN IF line # <<>> /\ Len(line) >= MinTitleLen /\ Len(line) < MaxTitleLen
       THEN LET title == strip(SubLeadingPrefix(line))
            IN IF title # <<>> THEN <<title>> ELSE <<>>
       ELSE <<>>

\* Lines 117-123, one pass of the loop: <<the title returned>>, or <<>> when
\* the loop goes on to the next line.
TitleOfLine(raw) ==
    LET line == strip(raw)
    IN IF line # <<>> /\ Len(line) > MinTitleLen /\ Len(line) < MaxTitleLen
       THEN LET title == strip(SubLeadingPrefix(line))
            IN IF title # <<>> THEN <<title>> ELSE <<>>
       ELSE <<>>

\* The last index of a period in name, or 0.
LastDot(name) ==
    LET D == {i \in DOMAIN name : name[i] = "."}
    IN IF D = {} THEN 0 ELSE CHOOSE i \in D : \A j \in D : j <= i

\* Path(pdf_path).stem: the file name without its last suffix.
stem(name) ==
    LET i == LastDot(name)
    IN IF 1 < i /\ i < Len(name) THEN SubSeq(name, 1, i - 1) ELSE name

\* Line 129.
FallbackTitle(pdf) == str_title(replace_underscores(stem(pdf.name)))

\* Lines 108-115: <<lines[:5]>> when the loop of line 116 is entered, <<>>
\* when fitz.open or get_text raises, the document has no page, or the text
\* of page 1 is empty.
TitleLines(pdf) ==
    IF ~pdf.opens \/ pdf.pages = <<>> THEN <<>>
    ELSE IF ~pdf.pages[1].readable \/ pdf.pages[1].text = <<>> THEN <<>>
    ELSE <<Take(split_lines(pdf.pages[1].text), TitleWindow)>>

RECURSIVE FirstTitleFrom(_, _)
FirstTitleFrom(lines, i) ==
    IF i > Len(lines) THEN <<>>
    ELSE IF TitleOfLine(lines[i]) # <<>> THEN TitleOfLine(lines[i])
    ELSE FirstTitleFrom(lines, i + 1)

\* extract_title_from_pdf, lines 105-129.
extract_title_from_pdf(pdf) ==
    LET ls == TitleLines(pdf)
        found == IF ls = <<>> THEN <<>> ELSE FirstTitleFrom(ls[1], 1)
    IN IF found # <<>> THEN found[1] ELSE FallbackTitle(pdf)

\* ------------------------------------------------------------ inputs of extract_title_from_pdf

MaxTextLines == 6

TitleLineSet ==
    { <<"2","0","2","4">>,
      <<"A","c","m","e"," ","C","o","r","p"," ","A","n","n","u","a","l"," ","R","e","p","o","r","t">>,
      <<"1",".","2"," ","S","c","o","p","e">> }

ExtraTexts ==
    { <<" ", " ", TAB>>,
      <<"a","b","c">>,
      <<"a","b","c", NL, "a","b","c","d">>,
      <<NL, NL>>,
      <<"1","2"," ","-"," ","a","b">>,
      <<" ","-"," ","1","2","."," ", NL, " "," ","D","r","a","f","t"," ","v","2"," "," ">>,
      Repeat("a", MaxTitleLen - 1),
      Repeat("a", MaxTitleLen) \o <<NL, "L","a","t","e","r">>,
      <<"1",".",NL>> \o Repeat("b", MaxTitleLen + 1) }

TitleTexts ==
    {Join(ls, <<NL>>) : ls \in SeqsUpTo(TitleLineSet, MaxTextLines)} \cup ExtraTexts

ReportName == <<"r","e","p","o","r","t",".","p","d","f">>
FileNames ==
    { ReportName,
      <<"a","n","n","u","a","l","_","r","e","p","o","r","t","_","2","0","2","4",".","p","d","f">>,
      <<"m","y","_","f","i","l","e",".","v","2",".","p","d","f">> }

AcmeText ==
    <<"2","0","2","4", NL,
      "A","c","m","e"," ","C","o","r","p"," ","A","n","n","u","a","l"," ","R","e","p","o","r","t">>

TitlePdfs ==
    { Pdf(n, TRUE, <<Page(t, <<>>, TRUE)>>) : n \in FileNames, t \in TitleTexts }
    \cup { Pdf(n, o, <<Page(AcmeText, <<>>, r)>>) : n \in FileNames, o \in BOOLEAN, r \in BOOLEAN }
    \cup { Pdf(n, o, <<>>) : n \in FileNames, o \in BOOLEAN }

\* ------------------------------------------------------------ extract_headings_from_pdf

\* A span of a line; a span may lack the keys 'font' and 'width'.
Span(text, size, font, x, y) ==
    [text |-> text, size |-> size, font |-> font, origin |-> <<x, y>>]

SpanW(text, size, font, x, y, width) ==
    [text |-> text, size |-> size, font |-> font, origin |-> <<x, y>>, width |-> width]

RECURSIVE Concat(_)
\* ''.join(parts)
Concat(parts) == IF parts = <<>> THEN <<>> ELSE Head(parts) \o Concat(Tail(parts))

\* sub in s
Contains(s, sub) ==
    \E i \in 1..(Len(s) - Len(sub) + 1) : SubSeq(s, i, i + Len(sub) - 1) = sub

\* Line 90.
LineText(line) == strip(Concat([i \in DOMAIN line.spans |-> line.spans[i].text]))

\* Lines 94-95.
LineFontSize(line) ==
    LET sizes == {line.spans[i].size : i \in DOMAIN line.spans}
    IN IF sizes = {} THEN <<>> ELSE <<CHOOSE m \in sizes : \A z \in sizes : z <= m>>

\* span.get('font', '')
SpanFont(span) == IF "font" \in DOMAIN span THEN span.font ELSE <<>>

\* Line 96.
LineIsBold(line) ==
    \E i \in DOMAIN line.spans : Contains(SpanFont(line.spans[i]), <<"B","o","l","d">>)

\* Line 98.
LineX(line) == IF line.spans # <<>> THEN <<line.spans[1].origin[1]>> ELSE <<>>

\* Line 99, in hundredths rounded down: origin_y / height < 0.3 exactly when
\* the rounded-down hundredths are below 30.
LineY(line, page) ==
    IF line.spans # <<>> THEN <<(100 * line.spans[1].origin[2]) \div page.height>> ELSE <<>>

RECURSIVE SumWidths(_)
SumWidths(spans) ==
    IF spans = <<>> THEN 0
    ELSE (IF "width" \in DOMAIN Head(spans) THEN Head(spans).width ELSE 0)
         + SumWidths(Tail(spans))

\* Line 100.
LineWidth(line) == IF line.spans # <<>> THEN <<SumWidths(line.spans)>> ELSE <<>>

\* Lines 91 and 101: the line is kept as a heading.
LineAccepted(line, page) ==
    /\ LineText(line) # <<>>
    /\ is_heading(LineText(line), LineFontSize(line), LineIsBold(line),
                  LineY(line, page), LineX(line), LineWidth(line), <<page.width>>)

\* Faulty variant of AppendHeading, headings.insert(0, ...):
\* C3_OutlineInReadingOrder detects it.
AppendHeading_Front(hs, text, page_num) == <<[text |-> text, page |-> page_num]>> \o hs

\* Line 102.
AppendHeading(hs, text, page_num) == Append(hs, [text |-> text, page |-> page_num])

\* Lines 90-102, one pass of the loop over the lines of a block.
ScanOne(hs, line, page, page_num) ==
    IF LineAccepted(line, page) THEN AppendHeading(hs, LineText(line), page_num) ELSE hs

\* ------------------------------------------------------------ process_pdf

Levels == {"H1", "H2"}

\* What model.predict(texts) may return: one label for each text.
Predictions(texts) == [DOMAIN texts -> Levels]

Min(a, b) == IF a < b THEN a ELSE b

\* Faulty variant of ZipOutline, zip(headings, levels[1:]):
\* C4_OutlineMatchesCandidates detects it.
ZipOutline_Shifted(hs, lv) ==
    [i \in 1..Min(Len(hs), Len(lv) - 1) |->
        [level |-> lv[i + 1], text |-> hs[i].text, page |-> hs[i].page]]

\* Lines 153-159: zip(headings, levels) stops at the shorter of the two.
ZipOutline(hs, lv) ==
    [i \in 1..Min(Len(hs), Len(lv)) |->
        [level |-> lv[i], text |-> hs[i].text, page |-> hs[i].page]]

\* Faulty variant of NoHeadings, without the early return of lines 138-143:
\* C5_PredictAtMostOnce detects it.
NoHeadings_Never(hs) == FALSE

\* Line 138.
NoHeadings(hs) == hs = <<>>

\* ------------------------------------------------------------ documents of the batch runs

Regular == <<"H","e","l","v","e","t","i","c","a">>
Bold == <<"H","e","l","v","e","t","i","c","a","-","B","o","l","d">>

\* "Introduction", 14 pt bold, near the top of the page.
LIntro == [spans |-> <<Span(<<"I","n","t","r","o","d","u","c","t","i","o","n">>, 14, Bold, 72, 80)>>]
\* "1.1 " + "Background"
LBackground ==
    [spans |-> <<Span(<<"1",".","1"," ">>, 12, Regular, 72, 300),
                 Span(<<"B","a","c","k","g","r","o","u","n","d">>, 12, Bold, 90, 300)>>]
\* "Methods", with no 'font' key
LMethods == [spans |-> <<[text |-> <<"M","e","t","h","o","d","s">>, size |-> 11, origin |-> <<72, 500>>]>>]
\* "see [12] for data."
LBody ==
    [spans |-> <<Span(<<"s","e","e"," ","[","1","2","]"," ","f","o","r"," ","d","a","t","a",".">>,
                      10, Regular, 72, 400)>>]
\* Only white space.
LBlank == [spans |-> <<Span(<<" "," ">>, 10, Regular, 72, 420)>>]
LNoSpans == [spans |-> <<>>]
\* "Scope " + "of work": accepted by its score (a 14 pt bold span), ...
LScopeBig ==
    [spans |-> <<SpanW(<<"S","c","o","p","e"," ">>, 10, Regular, 270, 600, 20),
                 SpanW(<<"o","f"," ","w","o","r","k">>, 14, Bold, 290, 600, 40)>>]
\* ... and refused when small and regular.
LScopeSmall ==
    [spans |-> <<Span(<<"S","c","o","p","e"," ","o","f"," ","w","o","r","k">>, 10, Regular, 72, 640)>>]

ImageBlock == [type |-> 1]
TextBlock(lines) == [type |-> 0, lines |-> lines]

PageSet ==
    { Page(AcmeText, <<TextBlock(<<LIntro, LBody>>), ImageBlock,
                       TextBlock(<<LBlank, LBackground>>)>>, TRUE),
      Page(<<"M","e","t","h","o","d","s">>,
           <<TextBlock(<<LMethods, LBackground, LScopeSmall>>), TextBlock(<<>>)>>, TRUE),
      Page(<<"a","b","c">>, <<TextBlock(<<LScopeSmall, LNoSpans, LScopeBig>>)>>, TRUE),
      Page(<<>>, <<ImageBlock, TextBlock(<<LBody>>), TextBlock(<<>>)>>, TRUE),
      Page(<<>>, <<>>, FALSE) }

MaxPages == 2
MaxDocs == 3

\* One document of up to MaxPages pages ...
RichDocs == {Pdf(ReportName, TRUE, ps) : ps \in SeqsUpTo(PageSet, MaxPages)}

\* ... or up to MaxDocs documents among: one heading, no heading, a file
\* that does not open.
SmallDocs ==
    { Pdf(<<"a",".","p","d","f">>, TRUE,
          <<Page(<<"a","b","c">>, <<TextBlock(<<LScopeSmall, LNoSpans, LScopeBig>>)>>, TRUE)>>),
      Pdf(<<"n","o","_","h","e","a","d",".","p","d","f">>, TRUE,
          <<Page(<<>>, <<ImageBlock, TextBlock(<<LBody>>)>>, TRUE)>>),
      Pdf(<<"b","a","d",".","p","d","f">>, FALSE, <<>>) }

Batches == {<<d>> : d \in RichDocs} \cup SeqsUpTo(SmallDocs, MaxDocs)

\* ------------------------------------------------------------ state

VARIABLES
    hargs,   \* is_heading: the arguments of the call
    hpc,     \* is_heading: "off", "strip", "reject", "accept", "score" or "done"
    hline,   \* is_heading: the local line (after line 24)
    hret,    \* is_heading: <<>> or <<the value returned>>
    hvia,    \* is_heading: [kind, rule] of the return taken
    hscore   \* is_heading: the local score, in tenths

VARIABLES
    tpdf,    \* extract_title_from_pdf: the document of the call
    tpc,     \* extract_title_from_pdf: "off", "open", "scan", "fallback" or "done"
    tlines,  \* extract_title_from_pdf: lines[:5]
    ti,      \* extract_title_from_pdf: the index in tlines the loop is at
    ttitle   \* extract_title_from_pdf: <<>> or <<the title returned>>

VARIABLES
    batch,     \* process_all_pdfs: pdf_files
    di,        \* process_all_pdfs: the index in batch of pdf_file
    pc,        \* where the batch run is: "off", "loop", "title", "open", "page",
               \* "block", "line", "check", "load", "predict", "zip", "write", "end"
    title,     \* process_pdf: title
    headings,  \* extract_headings_from_pdf and process_pdf: headings
    pg,        \* extract_headings_from_pdf: page_num
    bk,        \* extract_headings_from_pdf: the index of block in blocks
    ln,        \* extract_headings_from_pdf: the index of line in block['lines']
    levels,    \* process_pdf: levels
    outline,   \* process_pdf: outline
    result,    \* process_all_pdfs: <<>> or <<the value process_pdf returned>>
    output,    \* per document: <<>> or <<the JSON value written to its file>>
    loaded,    \* per document: the calls of joblib.load
    predicted, \* per document: the calls of model.predict
    errors     \* the documents the except clause of line 211 reported

hvars == <<hargs, hpc, hline, hret, hvia, hscore>>
tvars == <<tpdf, tpc, tlines, ti, ttitle>>
pvars == <<batch, di, pc, title, headings, pg, bk, ln, levels, outline, result,
           output, loaded, predicted, errors>>
vars == <<hvars, tvars, pvars>>

\* ------------------------------------------------------------ is_heading, step by step

NoVia == [kind |-> "none", rule |-> 0]

HeadingOff ==
    /\ hargs = <<>> /\ hpc = "off" /\ hline = <<>>
    /\ hret = <<>> /\ hvia = NoVia /\ hscore = 0

HReturn(value, kind, rule) ==
    /\ hpc' = "done"
    /\ hret' = <<value>>
    /\ hvia' = [kind |-> kind, rule |-> rule]

\* Lines 24-26.
HStrip ==
    /\ hpc = "strip"
    /\ hline' = strip(hargs.text)
    /\ IF hline' = <<>>
       THEN HReturn(FALSE, "reject", 1)
       ELSE hpc' = "reject" /\ UNCHANGED <<hret, hvia>>
    /\ UNCHANGED <<hargs, hscore, tvars, pvars>>

\* Lines 28-42.
HReject ==
    /\ hpc = "reject"
    /\ IF RejectRule(hline) # 0
       THEN HReturn(FALSE, "reject", RejectRule(hline))
       ELSE hpc' = "accept" /\ UNCHANGED <<hret, hvia>>
    /\ UNCHANGED <<hargs, hline, hscore, tvars, pvars>>

\* Lines 44-52.
HAccept ==
    /\ hpc = "accept"
    /\ IF AcceptRule(hline) # 0
       THEN HReturn(TRUE, "accept", AcceptRule(hline))
       ELSE hpc' = "score" /\ UNCHANGED <<hret, hvia>>
    /\ UNCHANGED <<hargs, hline, hscore, tvars, pvars>>

\* Lines 54-78.
HScore ==
    /\ hpc = "score"
    /\ hscore' = Score(hline, hargs.font_size, hargs.is_bold, hargs.y_pos,
                       hargs.x_pos, hargs.width, hargs.page_width)
    /\ HReturn(hscore' >= ScoreThreshold, "score", 0)
    /\ UNCHANGED <<hargs, hline, tvars, pvars>>

\* ------------------------------------------------------------ extract_title_from_pdf, step by step

TitleOff == tpdf = <<>> /\ tpc = "off" /\ tlines = <<>> /\ ti = 0 /\ ttitle = <<>>

\* Lines 108-115.
TOpen ==
    /\ tpc = "open"
    /\ IF TitleLines(tpdf) = <<>>
       THEN tpc' = "fallback" /\ UNCHANGED <<tlines, ti>>
       ELSE tpc' = "scan" /\ tlines' = TitleLines(tpdf)[1] /\ ti' = 1
    /\ UNCHANGED <<tpdf, ttitle, hvars, pvars>>

\* Lines 116-123, one pass of the loop.
TLine ==
    /\ tpc = "scan"
    /\ IF ti > Len(tlines)
       THEN tpc' = "fallback" /\ UNCHANGED <<ti, ttitle>>
       ELSE IF TitleOfLine(tlines[ti]) # <<>>
            THEN tpc' = "done" /\ ttitle' = TitleOfLine(tlines[ti]) /\ UNCHANGED ti
            ELSE ti' = ti + 1 /\ UNCHANGED <<tpc, ttitle>>
    /\ UNCHANGED <<tpdf, tlines, hvars, pvars>>

\* Lines 124-129.
TFallback ==
    /\ tpc = "fallback"
    /\ tpc' = "done"
    /\ ttitle' = <<FallbackTitle(tpdf)>>
    /\ UNCHANGED <<tpdf, tlines, ti, hvars, pvars>>

\* ------------------------------------------------------------ process_all_pdfs, step by step

PipelineOff ==
    /\ batch = <<>> /\ di = 0 /\ pc = "off" /\ title = <<>> /\ headings = <<>>
    /\ pg = 0 /\ bk = 0 /\ ln = 0 /\ levels = <<>> /\ outline = <<>> /\ result = <<>>
    /\ output = <<>> /\ loaded = <<>> /\ predicted = <<>> /\ errors = {}

\* Faulty variant of AfterError, an exception that ends the loop of line 195:
\* C6_FailuresAreIsolated detects it.
AfterError_Abort(i) == Len(batch) + 1

\* Lines 211-212 and the next pass of the loop of line 195: the index of the
\* next pdf_file after the one at i failed.
AfterError(i) == i + 1

\* An exception leaves process_pdf or the write and is caught at line 211.
Raise ==
    /\ errors' = errors \cup {di}
    /\ di' = AfterError(di)
    /\ pc' = "loop"

\* Lines 195-200: the next pdf_file, and the call of process_pdf.
NextPdf ==
    /\ pc = "loop" /\ di <= Len(batch)
    /\ pc' = "title"
    /\ title' = <<>> /\ headings' = <<>> /\ levels' = <<>> /\ outline' = <<>>
    /\ result' = <<>> /\ pg' = 0 /\ bk' = 0 /\ ln' = 0
    /\ UNCHANGED <<batch, di, output, loaded, predicted, errors, hvars, tvars>>

\* Lines 189-191, or the end of the loop of line 195.
Finish ==
    /\ pc = "loop" /\ di > Len(batch)
    /\ pc' = "end"
    /\ UNCHANGED <<batch, di, title, headings, pg, bk, ln, levels, outline, result,
                   output, loaded, predicted, errors, hvars, tvars>>

\* Line 134.
ExtractTitle ==
    /\ pc = "title"
    /\ title' = extract_title_from_pdf(batch[di])
    /\ pc' = "open"
    /\ UNCHANGED <<batch, di, headings, pg, bk, ln, levels, outline, result,
                   output, loaded, predicted, errors, hvars, tvars>>

\* Lines 81-82.
OpenPdf ==
    /\ pc = "open"
    /\ IF batch[di].opens
       THEN pc' = "page" /\ headings' = <<>> /\ pg' = 1 /\ UNCHANGED <<di, errors>>
       ELSE Raise /\ UNCHANGED <<headings, pg>>
    /\ UNCHANGED <<batch, title, bk, ln, levels, outline, result,
                   output, loaded, predicted, hvars, tvars>>

\* Lines 83-85, and line 103 after the last page.
ScanPage ==
    /\ pc = "page"
    /\ IF pg > Len(batch[di].pages)
       THEN pc' = "check" /\ UNCHANGED <<di, errors, bk>>
       ELSE IF batch[di].pages[pg].readable
            THEN pc' = "block" /\ bk' = 1 /\ UNCHANGED <<di, errors>>
            ELSE Raise /\ UNCHANGED bk
    /\ UNCHANGED <<batch, title, headings, pg, ln, levels, outline, result,
                   output, loaded, predicted, hvars, tvars>>

\* Lines 86-88.
ScanBlock ==
    /\ pc = "block"
    /\ LET blocks == batch[di].pages[pg].blocks
       IN IF bk > Len(blocks)
          THEN pc' = "page" /\ pg' = pg + 1 /\ UNCHANGED <<bk, ln>>
          ELSE IF "lines" \notin DOMAIN blocks[bk]
               THEN bk' = bk + 1 /\ UNCHANGED <<pc, pg, ln>>
               ELSE pc' = "line" /\ ln' = 1 /\ UNCHANGED <<pg, bk>>
    /\ UNCHANGED <<batch, di, title, headings, levels, outline, result,
                   output, loaded, predicted, errors, hvars, tvars>>

\* Lines 89-102.
ScanLine ==
    /\ pc = "line"
    /\ LET page == batch[di].pages[pg]
           lines == page.blocks[bk].lines
       IN IF ln > Len(lines)
          THEN pc' = "block" /\ bk' = bk + 1 /\ UNCHANGED <<ln, headings>>
          ELSE /\ headings' = ScanOne(headings, lines[ln], page, pg)
               /\ ln' = ln + 1
               /\ UNCHANGED <<pc, bk>>
    /\ UNCHANGED <<batch, di, title, pg, levels, outline, result,
                   output, loaded, predicted, errors, hvars, tvars>>

\* Lines 138-143.
CheckHeadings ==
    /\ pc = "check"
    /\ IF NoHeadings(headings)
       THEN pc' = "write" /\ result' = <<[title |-> title, outline |-> <<>>]>>
       ELSE pc' = "load" /\ UNCHANGED result
    /\ UNCHANGED <<batch, di, title, headings, pg, bk, ln, levels, outline,
                   output, loaded, predicted, errors, hvars, tvars>>

\* Line 146: joblib.load returns the model or raises.
LoadModel ==
    /\ pc = "load"
    /\ loaded' = [loaded EXCEPT ![di] = @ + 1]
    /\ \/ pc' = "predict" /\ UNCHANGED <<di, errors>>
       \/ Raise
    /\ UNCHANGED <<batch, title, headings, pg, bk, ln, levels, outline, result,
                   output, predicted, hvars, tvars>>

\* Lines 149-150: model.predict returns one label for each text or raises.
Predict ==
    /\ pc = "predict"
    /\ predicted' = [predicted EXCEPT ![di] = @ + 1]
    /\ LET texts == [i \in DOMAIN headings |-> headings[i].text]
       IN \/ /\ levels' \in Predictions(texts)
             /\ pc' = "zip"
             /\ UNCHANGED <<di, errors>>
          \/ Raise /\ UNCHANGED levels
    /\ UNCHANGED <<batch, title, headings, pg, bk, ln, outline, result,
                   output, loaded, hvars, tvars>>

\* Lines 153-164.
BuildOutline ==
    /\ pc = "zip"
    /\ outline' = ZipOutline(headings, levels)
    /\ result' = <<[title |-> title, outline |-> outline']>>
    /\ pc' = "write"
    /\ UNCHANGED <<batch, di, title, headings, pg, bk, ln, levels,
                   output, loaded, predicted, errors, hvars, tvars>>

\* Lines 203-209: the output file is opened and the result written, or
\* open raises.
WriteOutput ==
    /\ pc = "write"
    /\ \/ /\ output' = [output EXCEPT ![di] = result]
          /\ di' = di + 1
          /\ pc' = "loop"
          /\ UNCHANGED errors
       \/ Raise /\ UNCHANGED output
    /\ UNCHANGED <<batch, title, headings, pg, bk, ln, levels, outline, result,
                   loaded, predicted, hvars, tvars>>

\* ------------------------------------------------------------ specifications

\* A batch run of process_all_pdfs.
Init ==
    /\ batch \in Batches
    /\ di = 1 /\ pc = "loop"
    /\ title = <<>> /\ headings = <<>> /\ pg = 0 /\ bk = 0 /\ ln = 0
    /\ levels = <<>> /\ outline = <<>> /\ result = <<>>
    /\ output = [d \in DOMAIN batch |-> <<>>]
    /\ loaded = [d \in DOMAIN batch |-> 0]
    /\ predicted = [d \in DOMAIN batch |-> 0]
    /\ errors = {}
    /\ HeadingOff /\ TitleOff

Next ==
    \/ NextPdf \/ Finish \/ ExtractTitle \/ OpenPdf \/ ScanPage \/ ScanBlock \/ ScanLine
    \/ CheckHeadings \/ LoadModel \/ Predict \/ BuildOutline \/ WriteOutput

Spec == Init /\ [][Next]_vars

\* Calls of is_heading.
InitHeading ==
    /\ hargs \in HeadingCalls
    /\ hpc = "strip" /\ hline = <<>> /\ hret = <<>> /\ hvia = NoVia /\ hscore = 0
    /\ TitleOff /\ PipelineOff

NextHeading == HStrip \/ HReject \/ HAccept \/ HScore

SpecHeading == InitHeading /\ [][NextHeading]_vars

\* Calls of extract_title_from_pdf.
InitTitle ==
    /\ tpdf \in TitlePdfs
    /\ tpc = "open" /\ tlines = <<>> /\ ti = 0 /\ ttitle = <<>>
    /\ HeadingOff /\ PipelineOff

NextTitle == TOpen \/ TLine \/ TFallback

SpecTitle == InitTitle /\ [][NextTitle]_vars

\* ------------------------------------------------------------ the properties, in their own words

\* The words of a line: the places where a run of non-space characters starts.
WordStarts(s) == {i \in DOMAIN s : s[i] \notin Space /\ (i = 1 \/ s[i - 1] \in Space)}
WordCount(s) == Cardinality(WordStarts(s))

\* The word that starts at i.
WordAt(s, i) ==
    LET E == {j \in i..Len(s) : \A k \in i..j : s[k] \notin Space}
    IN SubSeq(s, i, CHOOSE j \in E : \A k \in E : k <= j)

\* One or more digit groups separated by periods, then white space.
IsSectionNumber(s) ==
    /\ s # <<>>
    /\ \A i \in DOMAIN s : s[i] \in Digit \cup {"."}
    /\ s[1] \in Digit /\ s[Len(s)] \in Digit
    /\ \A i \in 1..(Len(s) - 1) : ~(s[i] = "." /\ s[i + 1] = ".")

HasSectionPrefix(s) ==
    \E k \in DOMAIN s : s[k] \in Space /\ IsSectionNumber(SubSeq(s, 1, k - 1))

AllLowercase(s) == (\E i \in DOMAIN s : s[i] \in Lower) /\ ~(\E i \in DOMAIN s : s[i] \in Upper)
AllUppercase(s) == (\E i \in DOMAIN s : s[i] \in Upper) /\ ~(\E i \in DOMAIN s : s[i] \in Lower)
HasPeriod(s) == \E i \in DOMAIN s : s[i] = "."
HasLinkingVerb(s) == \E i \in WordStarts(s) : lower(WordAt(s, i)) \in Verbs
HasBracketedInt(s) ==
    \E i, j \in DOMAIN s :
        /\ i + 1 < j /\ s[i] = "[" /\ s[j] = "]"
        /\ \A k \in (i + 1)..(j - 1) : s[k] \in Digit
StartsWithGlyph(s) == s # <<>> /\ s[1] \in {BULLET, "-", ARROW}
EndsWithSentenceMark(s) == s # <<>> /\ s[Len(s)] \in {".", ";", ",", "!", "?"}

\* Some rejection rule matches the trimmed text s.
AnyRejection(s) ==
    \/ AllLowercase(s)
    \/ WordCount(s) > 15
    \/ HasPeriod(s) /\ WordCount(s) > 8
    \/ HasLinkingVerb(s)
    \/ HasBracketedInt(s)
    \/ StartsWithGlyph(s)
    \/ EndsWithSentenceMark(s)

\* Some acceptance pattern matches the trimmed text s.
AnyAcceptance(s) ==
    \/ HasSectionPrefix(s)
    \/ s # <<>> /\ s[Len(s)] = ":"
    \/ istitle(s)
    \/ AllUppercase(s) /\ Len(s) > 2

HText == strip(hargs.text)
HDone == hpc = "done"
HReturned(v) == hret = <<v>>

\* C1, as stated: every line whose text starts with a numeric section prefix
\* is a heading, whatever the style arguments and the rest of the text.
C1_PrefixAlwaysHeading == (HDone /\ HasSectionPrefix(HText)) => HReturned(TRUE)

\* C1, amended: every line whose text starts with a numeric section prefix
\* and matches no rejection rule is a heading, whatever the style arguments.
C1_PrefixHeadingUnlessRejected ==
    (HDone /\ HasSectionPrefix(HText) /\ ~AnyRejection(HText)) => HReturned(TRUE)

\* A line accepted for its numeric prefix alone: not Title Case, not
\* uppercase, no colon, and a score below the threshold.
C1_Witness ==
    /\ HDone /\ HasSectionPrefix(HText) /\ ~AnyRejection(HText) /\ HReturned(TRUE)
    /\ ~istitle(HText) /\ ~AllUppercase(HText)
    /\ Score(HText, hargs.font_size, hargs.is_bold, hargs.y_pos,
             hargs.x_pos, hargs.width, hargs.page_width) < ScoreThreshold

\* C2: a line that matches a rejection rule is no heading, whatever the
\* style arguments and whatever acceptance pattern it also matches.
C2_RejectionDominates == (HDone /\ AnyRejection(HText)) => HReturned(FALSE)

\* A rejected line that is 14 pt, bold, near the top and matches an
\* acceptance pattern.
C2_Witness ==
    /\ HDone /\ AnyRejection(HText) /\ AnyAcceptance(HText) /\ HReturned(FALSE)
    /\ hargs.font_size = <<14>> /\ hargs.is_bold /\ hargs.y_pos = <<10>>

\* C8: "1. Introduction" with font_size 14, bold, y 0.1 is accepted, and by
\* the numeric-prefix rule (acceptance rule 1).
C8_AcceptedByNumericPrefix ==
    ( /\ HDone
      /\ hargs.text = <<"1","."," ","I","n","t","r","o","d","u","c","t","i","o","n">>
      /\ hargs.font_size = <<14>> /\ hargs.is_bold /\ hargs.y_pos = <<10>> )
    => (HReturned(TRUE) /\ hvia = [kind |-> "accept", rule |-> 1])

\* The score as C9 states it, in tenths.
StatedScore ==
    LET s == HText
        starts == WordStarts(s)
        caps == Cardinality({i \in starts : s[i] \in Upper})
        twice == 2 * hargs.x_pos[1] + hargs.width[1]
    IN  (IF hargs.font_size # <<>> /\ hargs.font_size[1] >= 12 THEN 4 ELSE 0)
      + (IF hargs.is_bold THEN 3 ELSE 0)
      + (IF WordCount(s) < 10 THEN 2 ELSE 0)
      + (IF hargs.y_pos # <<>> /\ hargs.y_pos[1] < 30 THEN 1 ELSE 0)
      + (IF /\ hargs.x_pos # <<>> /\ hargs.width # <<>> /\ hargs.page_width # <<>>
            /\ 45 * 2 * hargs.page_width[1] < 100 * twice
            /\ 100 * twice < 55 * 2 * hargs.page_width[1]
         THEN 1 ELSE 0)
      + (IF 10 * caps > 7 * WordCount(s) THEN 1 ELSE 0)

\* C9: a line no rejection and no acceptance rule fires on is a heading
\* exactly when its score is at least 0.5.
C9_ScoreDecides ==
    (HDone /\ HText # <<>> /\ ~AnyRejection(HText) /\ ~AnyAcceptance(HText))
    => (HReturned(TRUE) <=> StatedScore >= 5)

\* A scored line whose score is exactly 0.5, and is accepted.
C9_Witness ==
    /\ HDone /\ HText # <<>> /\ ~AnyRejection(HText) /\ ~AnyAcceptance(HText)
    /\ StatedScore = 5 /\ HReturned(TRUE)

\* C10: no line that reaches the scoring branch is fully uppercase and
\* longer than 2 characters.
C10_UppercaseNeverScored ==
    (hpc = "score" \/ (HDone /\ hvia.kind = "score"))
    => ~(AllUppercase(hline) /\ Len(hline) > 2)

\* A fully uppercase line of 2 characters has been scored.
C10_Witness == HDone /\ hvia.kind = "score" /\ AllUppercase(hline) /\ Len(hline) = 2

\* The trimmed line without its leading run of digits, white space, periods
\* and hyphens.
Remainder(raw) ==
    LET s == strip(raw)
        K == {k \in DOMAIN s : s[k] \notin Digit \cup Space \cup {".", "-"}}
    IN IF K = {} THEN <<>> ELSE SubSeq(s, CHOOSE k \in K : \A j \in K : k <= j, Len(s))

Qualifies(raw) == Len(strip(raw)) > 3 /\ Len(strip(raw)) < 200 /\ Remainder(raw) # <<>>

\* The title C7 states for a document.
StatedTitle(pdf) ==
    LET canRead == pdf.opens /\ pdf.pages # <<>> /\ pdf.pages[1].readable
        lines == IF canRead THEN split_lines(pdf.pages[1].text) ELSE <<>>
        Q == {i \in DOMAIN lines : i <= 5 /\ Qualifies(lines[i])}
    IN IF Q # {}
       THEN Remainder(lines[CHOOSE i \in Q : \A j \in Q : i <= j])
       ELSE str_title(replace_underscores(stem(pdf.name)))

\* C7: the title is the remainder of the first qualifying line among the
\* first 5 lines of page 1, and otherwise the title-cased file name stem.
C7_TitleIsFirstQualifyingLine == tpc = "done" => ttitle = <<StatedTitle(tpdf)>>

\* "2024" is skipped and the second line is the title.
C7_Witness ==
    /\ tpc = "done" /\ ti = 2
    /\ tpdf.pages # <<>> /\ tpdf.pages[1].text = AcmeText
    /\ ttitle = <<SubSeq(AcmeText, 6, Len(AcmeText))>>

\* The lines of a page in reading order: block after block, and line after
\* line in a block.
ReadingOrder(page) ==
    Concat([b \in DOMAIN page.blocks |->
        IF "lines" \in DOMAIN page.blocks[b] THEN page.blocks[b].lines ELSE <<>>])

\* The heading candidates of page p of a document, in reading order.
PageCandidates(pdf, p) ==
    LET page == pdf.pages[p]
        kept == SelectSeq(ReadingOrder(page), LAMBDA l : LineAccepted(l, page))
    IN [i \in DOMAIN kept |-> [text |-> LineText(kept[i]), page |-> p]]

\* The heading candidates of a document that can be read.
Candidates(pdf) == Concat([p \in DOMAIN pdf.pages |-> PageCandidates(pdf, p)])

CanRead(pdf) == pdf.opens /\ \A p \in DOMAIN pdf.pages : pdf.pages[p].readable

Written(d) == output[d] # <<>>
OutlineOf(d) == output[d][1].outline

\* C3: the entries of a written outline are in non-decreasing page order,
\* and those of one page are that page's accepted lines in reading order.
C3_OutlineInReadingOrder ==
    \A d \in DOMAIN output :
        Written(d) =>
            /\ \A i, j \in DOMAIN OutlineOf(d) : i < j => OutlineOf(d)[i].page <= OutlineOf(d)[j].page
            /\ \A i \in DOMAIN OutlineOf(d) : OutlineOf(d)[i].page \in DOMAIN batch[d].pages
            /\ \A p \in DOMAIN batch[d].pages :
                LET onPage == SelectSeq(OutlineOf(d), LAMBDA e : e.page = p)
                IN [i \in DOMAIN onPage |-> [text |-> onPage[i].text, page |-> p]]
                       = PageCandidates(batch[d], p)

\* An outline with entries from two blocks of page 1 and entries of page 2.
C3_Witness ==
    \E d \in DOMAIN output :
        /\ Written(d) /\ Len(OutlineOf(d)) >= 4
        /\ OutlineOf(d)[1].page = 1 /\ OutlineOf(d)[2].page = 1
        /\ OutlineOf(d)[1].text # OutlineOf(d)[2].text
        /\ OutlineOf(d)[Len(OutlineOf(d))].page = 2

\* C4: the outline has one entry for each candidate, in order: entry i has
\* the text and page of candidate i and label i of the one predict call.
C4_OutlineMatchesCandidates ==
    (pc = "write" /\ headings # <<>>) =>
        /\ headings = Candidates(batch[di])
        /\ predicted[di] = 1
        /\ Len(outline) = Len(headings)
        /\ \A i \in DOMAIN headings :
            outline[i] = [level |-> levels[i], text |-> headings[i].text,
                          page |-> headings[i].page]
        /\ result = <<[title |-> title, outline |-> outline]>>

\* Two candidates that got different labels.
C4_Witness ==
    /\ pc = "write" /\ Len(outline) >= 2
    /\ outline[1].level = "H2" /\ outline[2].level = "H1"
    /\ outline[1].text # outline[2].text

\* C5: predict is called at most once for a document; a document without
\* candidates gets {title, outline: []} and the classifier is neither loaded
\* nor called; a document with candidates that gets a result had predict
\* called exactly once.
C5_PredictAtMostOnce ==
    \A d \in DOMAIN batch :
        /\ predicted[d] <= 1
        /\ (loaded[d] # 0 \/ predicted[d] # 0) => Candidates(batch[d]) # <<>>
        /\ Written(d) =>
              IF Candidates(batch[d]) = <<>>
              THEN /\ output[d][1] = [title |-> extract_title_from_pdf(batch[d]), outline |-> <<>>]
                   /\ output[d][1].title # <<>>
                   /\ loaded[d] = 0 /\ predicted[d] = 0
              ELSE predicted[d] = 1

\* One document written with an empty outline and one written after a
\* predict call.
C5_Witness ==
    \E d, e \in DOMAIN batch :
        /\ Written(d) /\ OutlineOf(d) = <<>> /\ loaded[d] = 0
        /\ Written(e) /\ OutlineOf(e) # <<>> /\ predicted[e] = 1

====
